---- MODULE Spec2Model ----
(***************************************************************************)
(* Model of the Bosch SHC integration (bosch_shc/__init__.py): the setup   *)
(* and unload of one config entry, the universal-switch event listeners,   *)
(* the scenario callback, the trigger_scenario service and the host stop   *)
(* event.  The controller library (boschshcpy) and the host runtime are    *)
(* the environment: the polling thread delivers callbacks while the        *)
(* session polls and a callback is subscribed, the host fires its stop     *)
(* event once, calls the service and unloads the entry.                    *)
(***************************************************************************)
EXTENDS Integers, Sequences, FiniteSets, TLC

\* ---------------------------------------------------------------- bounds
MaxEvents == 2
MaxSwitches == 2

\* ------------------------------------------------------------- constants
None == "None"
\* None where the other values are registry ids
NoDeviceId == <<"None">>

PLATFORMS ==
    {"binary_sensor", "cover", "switch", "sensor", "climate",
     "alarm_control_panel", "light"}

EVENT_BOSCH_SHC_CLICK == "bosch_shc.click"
EVENT_BOSCH_SHC_SCENARIO_TRIGGER == "bosch_shc.scenario_trigger"
SUPPORTED_INPUTS_EVENTS_TYPES == {"PRESS_SHORT", "PRESS_LONG"}

\* ------------------------------------------------------- input domains
SessionResults == {"ok", "SHCAuthenticationError", "SHCConnectionError", "SHCmDNSError"}
EventTypes == {"PRESS_SHORT", "PRESS_LONG", "PRESS_LONG_RELEASED"}
KeyNames == {"LOWER_BUTTON", "UPPER_BUTTON"}
Timestamps == {"t1", "t2"}
ClickTimestamps == {"t1"}
ScenarioIds == {"s1", "s2"}
Names == {"a", "b"}
CallNames == Names \cup {"c"}
AllSwitches == 1..MaxSwitches
ScenarioSets == UNION {[S -> Names] : S \in SUBSET ScenarioIds}
\* results of the platform unloads: the platforms whose unload fails
UnloadFailures == {{}, {"light"}, {"cover", "sensor"}, PLATFORMS}

\* ---------------------------------------------------------------- state
VARIABLES
    entryState,        \* host's state of the config entry
    pc,                \* position of async_setup_entry
    outcome,           \* how the last async_setup_entry ended
    hassData,          \* TRUE iff a session is stored in hass.data[DOMAIN][entry_id]
    switches,          \* session.device_helper.universal_switches
    keypad,            \* the switches that have a service with id "Keypad"
    scenarios,         \* session.scenarios: scenario id -> name
    polling,           \* the session's polling thread runs
    startCount,        \* invocations of session.start_polling
    stopCount,         \* invocations of session.stop_polling
    scenario_callback, \* TRUE iff _async_scenario_trigger is subscribed
    reset_connection_listener, \* "unset", "remover" or None
    device_id,         \* registry id of the controller (local of async_setup_entry)
    deviceRegistry,    \* identifiers registered in the host device registry
    forwarded,         \* platforms the entry was forwarded to
    cur,               \* switch of the current iteration of the listener loop
    keypadSub,         \* switches whose Keypad service has the handler subscribed
    listenerDeviceId,  \* SwitchDeviceEventListener.device_id per switch
    stopListeners,     \* listen_once(EVENT_HOMEASSISTANT_STOP) listeners on the bus
    hostStop,          \* "running", "stopping" (listeners pending), "stopped"
    stopAtLoaded,      \* the stop event was fired after a successful setup
    pending,           \* stop listeners dispatched and not yet run
    shutdownError,     \* switches whose shutdown() raised AttributeError
    serviceRegistered, \* trigger_scenario is registered
    schemaNames,       \* container of vol.In in the service schema
    lastCall,          \* last trigger_scenario call: name, result, triggered
    unloadPc,          \* position of async_unload_entry
    unloadResults,     \* platforms whose unload failed in the last unload
    unloadRet,         \* return value of async_unload_entry
    busCount,          \* number of events fired on the host bus
    busLast,           \* the event fired last on the host bus
    log                \* the warning logged last

vars == <<entryState, pc, outcome, hassData, switches, keypad,
          scenarios, polling, startCount, stopCount, scenario_callback,
          reset_connection_listener, device_id, deviceRegistry, forwarded,
          cur, keypadSub, listenerDeviceId, stopListeners, hostStop,
          stopAtLoaded, pending, shutdownError, serviceRegistered,
          schemaNames, lastCall, unloadPc, unloadResults, unloadRet, busCount, busLast, log>>

setupVars == <<entryState, pc, outcome>>
sessionVars == <<switches, keypad, scenarios, polling, startCount, stopCount,
                 scenario_callback, reset_connection_listener>>
hostVars == <<hassData, device_id, deviceRegistry, forwarded, serviceRegistered,
              schemaNames>>
listenerVars == <<cur, keypadSub, listenerDeviceId>>
stopVars == <<stopListeners, hostStop, stopAtLoaded, pending, shutdownError>>
unloadVars == <<unloadPc, unloadResults, unloadRet>>

\* -------------------------------------------------------------- helpers
ControllerIdent == <<"shc", 0>>
SwitchIdent(d) == <<"hdm", d>>
SwitchName(d) == <<"name", d>>
\* device_registry.async_get_or_create(...).id
RegId(ident) == <<"reg", ident>>

Min(S) == CHOOSE x \in S : \A y \in S : x <= y

ScenarioNames(sc) == {sc[i] : i \in DOMAIN sc}

NoEvent == [event_type |-> None]

bus == <<busCount, busLast>>

Init ==
    /\ entryState = "not_loaded"
    /\ pc = "idle"
    /\ outcome = "none"
    /\ hassData = FALSE
    /\ switches = {}
    /\ keypad = {}
    /\ scenarios = <<>>
    /\ polling = FALSE
    /\ startCount = 0
    /\ stopCount = 0
    /\ scenario_callback = FALSE
    /\ reset_connection_listener = "unset"
    /\ device_id = NoDeviceId
    /\ deviceRegistry = {}
    /\ forwarded = {}
    /\ cur = 0
    /\ keypadSub = {}
    /\ listenerDeviceId = [d \in AllSwitches |-> NoDeviceId]
    /\ stopListeners = {}
    /\ hostStop = "running"
    /\ stopAtLoaded = FALSE
    /\ pending = {}
    /\ shutdownError = {}
    /\ serviceRegistered = FALSE
    /\ schemaNames = {}
    /\ lastCall = [name |-> None, result |-> "none", triggered |-> {}]
    /\ unloadPc = "idle"
    /\ unloadResults = {}
    /\ unloadRet = "none"
    /\ busCount = 0
    /\ busLast = NoEvent
    /\ log = None

\* ------------------------------------------------------ async_setup_entry
NotReady == "ConfigEntryNotReady"

\* as SessionErrorOutcome, without the except clause for SHCmDNSError
SessionErrorOutcome_NoMdns(result) ==
    IF result = "SHCAuthenticationError" THEN NotReady
    ELSE IF result \in {"SHCConnectionError"} THEN NotReady
    ELSE result

\* the except clauses around the creation of SHCSession
SessionErrorOutcome(result) ==
    IF result = "SHCAuthenticationError" THEN NotReady
    ELSE IF result \in {"SHCConnectionError", "SHCmDNSError"} THEN NotReady
    ELSE result

PollingListener == <<"polling", 0>>
SwitchListener(d) == <<"switch", d>>

\* the switches the loop over universal_switches still has to visit
LoopRest(after) == {d \in switches : d > after}

\* SwitchDeviceEventListener.__init__: subscribe the handler to the Keypad
\* service, if the device has one
KeypadSubAfterInit(d) == IF d \in keypad THEN keypadSub \cup {d} ELSE keypadSub

\* the container handed to vol.In by register_services
SchemaContainer(sc) == ScenarioNames(sc)

\* lines 60-76: the session is created in the executor, or creation raises
CreateSession(result, sw, kp, sc) ==
    /\ entryState \in {"not_loaded", "setup_retry"}
    /\ hostStop = "running"
    /\ IF result = "ok"
       THEN /\ entryState' = "setting_up"
            /\ pc' = "created"
            /\ switches' = sw
            /\ keypad' = kp
            /\ scenarios' = sc
            /\ UNCHANGED <<outcome, log>>
       ELSE /\ outcome' = SessionErrorOutcome(result)
            /\ entryState' = IF outcome' = NotReady THEN "setup_retry" ELSE "setup_error"
            /\ log' = IF result = "SHCAuthenticationError"
                      THEN "auth_failed" ELSE log
            /\ UNCHANGED <<pc, switches, keypad, scenarios>>
    /\ UNCHANGED <<polling, startCount, stopCount, scenario_callback,
                   reset_connection_listener>>
    /\ UNCHANGED <<hostVars, listenerVars, stopVars, unloadVars, lastCall, bus>>

\* lines 78-84: the session is stored, then the device registry is awaited
StoreSession ==
    /\ pc = "created"
    /\ hassData' = TRUE
    /\ pc' = "stored"
    /\ UNCHANGED <<entryState, outcome, sessionVars, device_id,
                   deviceRegistry, forwarded, serviceRegistered, schemaNames,
                   listenerVars, stopVars, unloadVars, lastCall, bus, log>>

\* lines 85-105: the controller is registered, the platforms are forwarded
\* and polling is started in the executor
RegisterAndStartPolling ==
    /\ pc = "stored"
    /\ deviceRegistry' = deviceRegistry \cup {ControllerIdent}
    /\ device_id' = RegId(ControllerIdent)
    /\ forwarded' = PLATFORMS
    /\ polling' = TRUE
    /\ startCount' = startCount + 1
    /\ pc' = "polling_started"
    /\ UNCHANGED <<entryState, outcome, hassData, switches, keypad,
                   scenarios, stopCount, scenario_callback,
                   reset_connection_listener, serviceRegistered, schemaNames,
                   listenerVars, stopVars, unloadVars, lastCall, bus, log>>

\* lines 106-125 and, without switches, 128-129: the stop listener and the
\* scenario callback are subscribed; the first listener is constructed and
\* its async_setup awaits the device registry
SubscribeAndFirstListener ==
    /\ pc = "polling_started"
    /\ reset_connection_listener' = "remover"
    /\ scenario_callback' = TRUE
    /\ IF switches = {}
       THEN /\ stopListeners' = stopListeners \cup {PollingListener}
            /\ serviceRegistered' = TRUE
            /\ schemaNames' = SchemaContainer(scenarios)
            /\ pc' = "idle"
            /\ entryState' = "loaded"
            /\ outcome' = "True"
            /\ UNCHANGED <<cur, keypadSub>>
       ELSE /\ cur' = Min(switches)
            /\ keypadSub' = KeypadSubAfterInit(cur')
            /\ stopListeners' = stopListeners \cup {PollingListener, SwitchListener(cur')}
            /\ pc' = "listener_setup"
            /\ UNCHANGED <<entryState, outcome, serviceRegistered, schemaNames>>
    /\ UNCHANGED <<hassData, switches, keypad, scenarios, polling,
                   startCount, stopCount, device_id, deviceRegistry, forwarded,
                   listenerDeviceId, hostStop, stopAtLoaded, pending,
                   shutdownError, unloadVars, lastCall, bus, log>>

\* lines 229-237 for the current switch, then the next iteration of the loop
\* (line 125) or, after the last switch, register_services (lines 128-129)
ListenerAsyncSetup ==
    /\ pc = "listener_setup"
    /\ deviceRegistry' = deviceRegistry \cup {SwitchIdent(cur)}
    /\ listenerDeviceId' = [listenerDeviceId EXCEPT ![cur] = RegId(SwitchIdent(cur))]
    /\ IF LoopRest(cur) = {}
       THEN /\ serviceRegistered' = TRUE
            /\ schemaNames' = SchemaContainer(scenarios)
            /\ pc' = "idle"
            /\ entryState' = "loaded"
            /\ outcome' = "True"
            /\ UNCHANGED <<cur, keypadSub, stopListeners>>
       ELSE /\ cur' = Min(LoopRest(cur))
            /\ keypadSub' = KeypadSubAfterInit(cur')
            /\ stopListeners' = stopListeners \cup {SwitchListener(cur')}
            /\ UNCHANGED <<pc, entryState, outcome, serviceRegistered, schemaNames>>
    /\ UNCHANGED <<hassData, sessionVars, device_id, forwarded,
                   hostStop, stopAtLoaded, pending, shutdownError, unloadVars,
                   lastCall, bus, log>>

\* ----------------------------------------------------- host stop event
\* the host fires EVENT_HOMEASSISTANT_STOP: every listen_once listener is
\* removed from the bus and dispatched
HostStop ==
    /\ hostStop = "running"
    /\ pending' = stopListeners
    /\ stopListeners' = {}
    /\ hostStop' = IF stopListeners = {} THEN "stopped" ELSE "stopping"
    /\ stopAtLoaded' = (outcome = "True")
    /\ UNCHANGED <<setupVars, sessionVars, hostVars, listenerVars, shutdownError,
                   unloadVars, lastCall, bus, log>>

StopStateAfter(p) == IF p = {} THEN "stopped" ELSE "stopping"

\* lines 101-103: stop_polling(event) runs session.stop_polling in the executor
StopPollingHandler ==
    /\ PollingListener \in pending
    /\ pending' = pending \ {PollingListener}
    /\ hostStop' = StopStateAfter(pending')
    /\ stopCount' = stopCount + 1
    /\ polling' = FALSE
    /\ UNCHANGED <<setupVars, hostVars, listenerVars, switches, keypad, scenarios,
                   startCount, scenario_callback, reset_connection_listener,
                   stopListeners, stopAtLoaded, shutdownError, unloadVars,
                   lastCall, bus, log>>

\* lines 239-247: _handle_ha_stop calls shutdown, which dereferences
\* self._service; without a Keypad service it is None
HandleHaStop(d) ==
    /\ SwitchListener(d) \in pending
    /\ pending' = pending \ {SwitchListener(d)}
    /\ hostStop' = StopStateAfter(pending')
    /\ IF d \in keypad
       THEN /\ keypadSub' = keypadSub \ {d}
            /\ UNCHANGED shutdownError
       ELSE /\ shutdownError' = shutdownError \cup {d}
            /\ UNCHANGED keypadSub
    /\ UNCHANGED <<setupVars, sessionVars, hostVars, cur, listenerDeviceId,
                   stopListeners, stopAtLoaded, unloadVars, lastCall, bus, log>>

\* ------------------------------------------- controller callbacks (polling)
\* the data of the EVENT_BOSCH_SHC_CLICK event, lines 209-216
ClickEventData(listener_device_id, d, state) ==
    [event_type |-> EVENT_BOSCH_SHC_CLICK,
     device_id |-> listener_device_id,
     id |-> SwitchIdent(d),
     name |-> SwitchName(d),
     last_time_triggered |-> state.eventtimestamp,
     button |-> state.keyname,
     click_type |-> state.eventtype]

\* as InputEventsFired, without the membership check
InputEventsFired_Unchecked(listener_device_id, d, state) ==
    <<ClickEventData(listener_device_id, d, state)>>

\* lines 204-223: the events _async_input_events_handler fires
InputEventsFired(listener_device_id, d, state) ==
    IF state.eventtype \in SUPPORTED_INPUTS_EVENTS_TYPES
    THEN <<ClickEventData(listener_device_id, d, state)>>
    ELSE <<>>

\* hass.bus.async_fire for a sequence of events
FireAll(events) ==
    /\ busCount' = busCount + Len(events)
    /\ busLast' = IF events = <<>> THEN busLast ELSE events[Len(events)]

\* the polling thread updates the switch (its eventtype, keyname and
\* eventtimestamp) and invokes the subscribed handler
InputEvent(d, et, key, ts) ==
    /\ polling
    /\ d \in keypadSub
    /\ busCount < MaxEvents
    /\ LET state == [eventtype |-> et, keyname |-> key, eventtimestamp |-> ts]
       IN FireAll(InputEventsFired(listenerDeviceId[d], d, state))
    /\ log' = IF et \in SUPPORTED_INPUTS_EVENTS_TYPES
              THEN log ELSE "unsupported_input"
    /\ UNCHANGED <<setupVars, sessionVars, hostVars, listenerVars, stopVars,
                   unloadVars, lastCall>>

\* the data of the EVENT_BOSCH_SHC_SCENARIO_TRIGGER event, lines 114-119
ScenarioEventData(controller_device_id, scenario_id, name, last_time_triggered) ==
    [event_type |-> EVENT_BOSCH_SHC_SCENARIO_TRIGGER,
     device_id |-> controller_device_id,
     id |-> scenario_id,
     name |-> name,
     last_time_triggered |-> last_time_triggered]

\* the polling thread invokes the subscribed scenario callback
ScenarioTriggered(scenario_id, name, ts) ==
    /\ polling
    /\ scenario_callback
    /\ busCount < MaxEvents
    /\ FireAll(<<ScenarioEventData(device_id, scenario_id, name, ts)>>)
    /\ UNCHANGED <<setupVars, sessionVars, hostVars, listenerVars, stopVars,
                   unloadVars, lastCall, log>>

\* the controller's scenarios change
ScenariosChange(sc) ==
    /\ entryState \in {"setting_up", "loaded", "unloading", "failed_unload"}
    /\ sc # scenarios
    /\ scenarios' = sc
    /\ UNCHANGED <<setupVars, hostVars, listenerVars, stopVars, unloadVars,
                   switches, keypad, polling, startCount, stopCount,
                   scenario_callback, reset_connection_listener, lastCall, bus, log>>

\* ------------------------------------------------ trigger_scenario service
\* as ScenariosToTrigger, with the comparison of the names inverted
ScenariosToTrigger_Inverted(sc, name) == {i \in DOMAIN sc : sc[i] # name}

\* the scenarios on which scenario_service_call schedules trigger
ScenariosToTrigger(sc, name) == {i \in DOMAIN sc : sc[i] = name}

\* as AcceptedNames, with the names read from the session at every call
AcceptedNames_Live == ScenarioNames(scenarios)

\* the names vol.In accepts at the time of a call
AcceptedNames == schemaNames

\* a call of the registered service: schema validation, then lines 166-171
ServiceCall(name) ==
    /\ serviceRegistered
    /\ lastCall' =
          IF name \notin AcceptedNames
          THEN [name |-> name, result |-> "rejected", triggered |-> {}]
          ELSE IF ~hassData
          THEN [name |-> name, result |-> "KeyError", triggered |-> {}]
          ELSE [name |-> name, result |-> "called",
                triggered |-> ScenariosToTrigger(scenarios, name)]
    /\ UNCHANGED <<setupVars, sessionVars, hostVars, listenerVars, stopVars,
                   unloadVars, bus, log>>

\* ------------------------------------------------------ async_unload_entry
\* as UnloadOk, with any(...) in place of all(...)
UnloadOk_Any(failed) == \E p \in PLATFORMS : p \notin failed

\* as ScenarioCallbackAfterUnsubscribe, with the unsubscription left out
ScenarioCallbackKept == scenario_callback

\* line 135: session.unsubscribe_scenario_callback()
ScenarioCallbackAfterUnsubscribe == FALSE

\* all(...) over the results of the platform unloads
UnloadOk(failed) == \A p \in PLATFORMS : p \notin failed

\* lines 134-140: unsubscribe the scenario callback, remove the stop
\* listener and hand session.stop_polling to the executor
UnloadBegin ==
    /\ entryState = "loaded"
    /\ unloadPc = "idle"
    /\ entryState' = "unloading"
    /\ scenario_callback' = ScenarioCallbackAfterUnsubscribe
    /\ IF reset_connection_listener # None
       THEN /\ stopListeners' = stopListeners \ {PollingListener}
            /\ reset_connection_listener' = None
            /\ unloadPc' = "stop_polling"
       ELSE /\ unloadPc' = "gather"
            /\ UNCHANGED <<stopListeners, reset_connection_listener>>
    /\ UNCHANGED <<pc, outcome, log, hostVars, listenerVars, switches,
                   keypad, scenarios, polling, startCount, stopCount, hostStop,
                   stopAtLoaded, pending, shutdownError, unloadResults,
                   unloadRet, lastCall, bus>>

\* line 140: session.stop_polling runs in the executor
UnloadStopPolling ==
    /\ unloadPc = "stop_polling"
    /\ stopCount' = stopCount + 1
    /\ polling' = FALSE
    /\ unloadPc' = "gather"
    /\ UNCHANGED <<setupVars, hostVars, listenerVars, stopVars, switches, keypad,
                   scenarios, startCount, scenario_callback,
                   reset_connection_listener, unloadResults, unloadRet,
                   lastCall, bus, log>>

\* lines 142-153: the platform unloads are gathered; the session is popped
\* if all of them succeeded
UnloadFinish(failed) ==
    /\ unloadPc = "gather"
    /\ unloadResults' = failed
    /\ unloadRet' = UnloadOk(failed)
    /\ hassData' = IF unloadRet' THEN FALSE ELSE hassData
    /\ forwarded' = forwarded \cap failed
    /\ entryState' = IF unloadRet' THEN "unloaded" ELSE "failed_unload"
    /\ unloadPc' = "done"
    /\ UNCHANGED <<pc, outcome, sessionVars, device_id, deviceRegistry,
                   serviceRegistered, schemaNames, listenerVars, stopVars,
                   lastCall, bus, log>>

\* ------------------------------------------------------------------ spec
\* setup, host stop and unload of the entry, for sessions whose universal
\* creation ends as in SR, whose universal switches are drawn from SW and
\* whose scenarios are drawn from SC, and for platform unloads failing as in UF
Lifecycle(SR, SW, SC, UF) ==
    \/ \E r \in SR, sw \in SW, sc \in SC :
          \E kp \in SUBSET sw : CreateSession(r, sw, kp, sc)
    \/ StoreSession
    \/ RegisterAndStartPolling
    \/ SubscribeAndFirstListener
    \/ ListenerAsyncSetup
    \/ HostStop
    \/ StopPollingHandler
    \/ \E d \in AllSwitches : HandleHaStop(d)
    \/ UnloadBegin
    \/ UnloadStopPolling
    \/ \E f \in UF : UnloadFinish(f)

\* The callbacks of the polling thread change only the bus and the log, a
\* service call changes only lastCall and a change of the scenarios only
\* scenarios, and none of them enables or disables a step of the lifecycle.
\* The two sides are therefore explored separately: Spec is the lifecycle
\* with the controller callbacks, SpecService the lifecycle with the
\* trigger_scenario service.  Switches are numbered in the order of
\* universal_switches, so the sessions of Spec have the switches 1..n.
EventScenarioSets == {[i \in {"s1"} |-> "a"]}
ServiceSwitchSets == {{}, {1}}
EventUnloadFailures == {{}, {"light"}}
EventSessionResults == {"ok", "SHCmDNSError"}
EventSwitchSets == {1..n : n \in 0..MaxSwitches}

Next ==
    \/ Lifecycle(EventSessionResults, EventSwitchSets, EventScenarioSets, EventUnloadFailures)
    \/ \E d \in AllSwitches, et \in EventTypes, key \in KeyNames, ts \in ClickTimestamps :
          InputEvent(d, et, key, ts)
    \/ \E i \in ScenarioIds, n \in Names, ts \in Timestamps : ScenarioTriggered(i, n, ts)

Spec == Init /\ [][Next]_vars

NextService ==
    \/ Lifecycle(SessionResults, ServiceSwitchSets, ScenarioSets, UnloadFailures)
    \/ \E sc \in ScenarioSets : ScenariosChange(sc)
    \/ \E n \in CallNames : ServiceCall(n)

SpecService == Init /\ [][NextService]_vars

\* ---------------------------------------------------------------- claims
Unloading == entryState \in {"unloading", "unloaded", "failed_unload"}

\* C1: when the creation of the session raises SHCAuthenticationError,
\* SHCConnectionError or SHCmDNSError, setup ends with ConfigEntryNotReady
\* and the host state is as before: no session stored, no device registered,
\* no platform forwarded, no polling, no stop listener, no scenario callback
\* and no trigger_scenario service.
C1_FailedSessionLeavesHostUnchanged ==
    [][\A r \in SessionResults \ {"ok"} :
          CreateSession(r, {}, {}, <<>>) =>
          /\ outcome' = NotReady
          /\ entryState' = "setup_retry"
          /\ UNCHANGED <<hostVars, sessionVars, listenerVars, stopVars>>
          /\ ~hassData' /\ deviceRegistry' = {} /\ forwarded' = {}
          /\ ~polling' /\ startCount' = 0 /\ stopListeners' = {}
          /\ ~scenario_callback' /\ ~serviceRegistered']_vars

C1_Witness == entryState = "setup_retry" /\ outcome = NotReady /\ log = "auth_failed"

\* C2: every invocation of the input-event handler of a switch fires exactly
\* one click event if the event type is supported, and fires nothing and
\* logs a warning if it is not.
C2_OneClickEventIffSupported ==
    [][\A d \in AllSwitches, et \in EventTypes, key \in KeyNames, ts \in ClickTimestamps :
          InputEvent(d, et, key, ts) =>
             IF et \in SUPPORTED_INPUTS_EVENTS_TYPES
             THEN /\ busCount' = busCount + 1
                  /\ busLast'.event_type = EVENT_BOSCH_SHC_CLICK
                  /\ log' = log
             ELSE /\ busCount' = busCount
                  /\ busLast' = busLast
                  /\ log' = "unsupported_input"]_vars

C2_Witness ==
    /\ busCount = 1
    /\ busLast.event_type = EVENT_BOSCH_SHC_CLICK
    /\ log = "unsupported_input"

\* C3: every click event carries the registry id registered for its switch,
\* never an unset device id.
C3_ClickCarriesRegistryId ==
    busLast.event_type = EVENT_BOSCH_SHC_CLICK =>
       /\ busLast.device_id # NoDeviceId
       /\ busLast.device_id = RegId(busLast.id)

\* C4: every scenario-trigger callback fires exactly one scenario event with
\* the callback's three values and the controller's registry id, and once
\* async_unload_entry has unsubscribed the callback no scenario event is
\* fired any more.
C4_ScenarioEventsWhileSubscribed ==
    [][/\ \A i \in ScenarioIds, n \in Names, ts \in Timestamps :
             ScenarioTriggered(i, n, ts) =>
                /\ scenario_callback
                /\ busCount' = busCount + 1
                /\ busLast' = [event_type |-> EVENT_BOSCH_SHC_SCENARIO_TRIGGER,
                               device_id |-> RegId(ControllerIdent),
                               id |-> i, name |-> n,
                               last_time_triggered |-> ts]
       /\ (Unloading /\ busCount' # busCount) =>
             busLast'.event_type # EVENT_BOSCH_SHC_SCENARIO_TRIGGER]_vars

C4_Witness ==
    /\ entryState \in {"unloaded", "failed_unload"}
    /\ busLast.event_type = EVENT_BOSCH_SHC_SCENARIO_TRIGGER
    /\ busCount = 2

C6_StopShutsDownEveryListener ==
    (hostStop = "stopped" /\ stopAtLoaded /\ unloadPc # "stop_polling") =>
       /\ ~polling
       /\ keypadSub = {}
       /\ shutdownError = {}

\* C7: the names the service accepts are the scenario names at the time
\* register_services ran: a call with another name is rejected and triggers
\* nothing, and later changes of the scenarios do not change the set.
C7_AcceptedNamesAreSnapshot ==
    [][/\ \A n \in CallNames :
             ServiceCall(n) =>
                IF n \in schemaNames
                THEN lastCall'.result # "rejected"
                ELSE lastCall'.result = "rejected" /\ lastCall'.triggered = {}
       /\ \A sc \in ScenarioSets : ScenariosChange(sc) => schemaNames' = schemaNames
       /\ schemaNames' # schemaNames =>
             /\ ~serviceRegistered /\ serviceRegistered'
             /\ schemaNames' = ScenarioNames(scenarios)]_vars

C7_Witness ==
    /\ lastCall.result = "rejected"
    /\ lastCall.name \in ScenarioNames(scenarios)
    /\ lastCall.name \notin schemaNames
    /\ schemaNames # {}

\* C8: session.stop_polling is invoked at most once for the one
\* start_polling of a successful setup.
C8_StopPollingAtMostOnce == stopCount <= 1

\* C9: async_unload_entry returns True exactly when every platform unloaded,
\* pops the session exactly then, and in either case leaves the session
\* without scenario callback and not polling.
C9_UnloadResult ==
    unloadPc = "done" =>
       /\ unloadRet = (unloadResults \cap PLATFORMS = {})
       /\ hassData = ~unloadRet
       /\ ~scenario_callback
       /\ ~polling

C9_Witness ==
    /\ unloadPc = "done"
    /\ unloadRet = FALSE
    /\ unloadResults = {"light"}
    /\ hassData

\* C10: while the trigger_scenario service is registered, the session is
\* stored in hass.data[DOMAIN][entry_id].
C10_ServiceImpliesSession == serviceRegistered => hassData

====
